---- MODULE Spec2Model ----
(***************************************************************************)
(* Model of dtdipy: the slice/box bookkeeping of bin/VTKPolyData_dipy.py   *)
(* (set_box_on_shape, update_visualbox, the volume loading of main and the *)
(* slider callbacks of scene_add_ui) and the batch loop of                 *)
(* ddipy/workflows/track_convert.py.                                       *)
(*                                                                         *)
(* A box and an extent are Python lists of six integers                    *)
(* [x0,x1,y0,y1,z0,z1]; here they are sequences of length 6, so that the   *)
(* Python index 2*i is the TLA+ index 2*i+1 and 2*i+1 is 2*i+2.            *)
(***************************************************************************)
EXTENDS Integers, Sequences, FiniteSets, TLC

\* ------------------------------------------------------------------ bounds
\* largest coordinate a box or an extent given as input may hold
MaxCoord == 2
\* largest size of a volume along one axis
MaxDim == 3
\* how often update_visualbox is applied in a row to one extent
MaxCalls == 2

Axes == 0..2
Coord == -1..MaxCoord
\* an axis of a volume is degenerate (one voxel) or of the full size
Dims == {1, MaxDim}

\* box[2*i] and box[2*i+1] of the Python lists
Lo(b, i) == b[2*i+1]
Hi(b, i) == b[2*i+2]

Max(a, b) == IF a >= b THEN a ELSE b
Min(a, b) == IF a <= b THEN a ELSE b

\* all lists of six coordinates, all shapes
SixOf(S) == {<<a, b, c, d, e, f>> : a \in S, b \in S, c \in S, d \in S, e \in S, f \in S}
Shapes == {<<a, b, c>> : a \in Dims, b \in Dims, c \in Dims}

DefaultBox == <<-1, -1, -1, -1, -1, -1>>
NoShape == <<>>

VARIABLES
    box,        \* _args['--box'], the list the functions work on
    boxIn,      \* the box as it was given on the command line
    shape,      \* the shape given to set_box_on_shape / the run shape of main
    raised,     \* TRUE once a raise statement has ended the call or the run
    pc,         \* position of the program
    vbox,       \* the extent list update_visualbox works on
    vboxIn,     \* the extent before the first call of update_visualbox
    vboxPrev,   \* the extent before the latest call of update_visualbox
    ncalls,     \* number of calls of update_visualbox made on vbox
    args,       \* _args: which of --image, --tensor, --sh are given
    imageShape, \* shape of the image volume, as scene_add_image returns it
    tensorShape,\* tensor_shape of main
    shShape,    \* sh_shape of main
    extent,     \* actor_dict: per layer type and axis, the arguments of the
                \* latest display_extent call on that actor
    slid,       \* axis -> rounded value of its latest slider change, or -1
    opacity,    \* _args['--image-opacity'], in tenths
    sphere,     \* the key of sphere_dict whose sphere the SH actors draw
    reference,  \* TrackConvertFlow.run: the reference parameter
    vox,        \* TrackConvertFlow.run: the vox parameter
    io_it,      \* the pairs (input_path, out_track_path) of the I/O iterator
    inputs,     \* input_path -> the tractogram file at that path
    files,      \* output path -> the streamlines saved there, or NoFile
    saved       \* one record per save_tractogram call made, in order

fnVars == <<vbox, vboxIn, vboxPrev, ncalls>>
runVars == <<args, imageShape, tensorShape, shShape, extent, slid, opacity, sphere>>
convVars == <<reference, vox, io_it, inputs, files, saved>>
vars == <<box, boxIn, shape, raised, pc, vbox, vboxIn, vboxPrev, ncalls,
          args, imageShape, tensorShape, shShape, extent, slid, opacity, sphere,
          reference, vox, io_it, inputs, files, saved>>

NoArgs == [image |-> FALSE, tensor |-> FALSE, sh |-> FALSE]
\* a layer that is not there, or on which display_extent was not called yet
NoExtent == <<>>
NoExtents == [image |-> <<NoExtent, NoExtent, NoExtent>>,
              tensor |-> <<NoExtent, NoExtent, NoExtent>>,
              sh |-> <<NoExtent, NoExtent, NoExtent>>]
NotSlid == [i \in Axes |-> -1]
\* line 22: the default of --image-opacity, 0.8
DefaultOpacity == 8
\* lines 282-283: the keys of sphere_dict; the SH actors are built with
\* sphere_low, lines 295, 305, 315
SphereNames == {"Low resolution", "High resolution"}
\* the variables of the viewer run, where a specification does not use them
RunIdle ==
    /\ args = NoArgs
    /\ imageShape = NoShape /\ tensorShape = NoShape /\ shShape = NoShape
    /\ extent = NoExtents
    /\ slid = NotSlid
    /\ opacity = DefaultOpacity
    /\ sphere = "Low resolution"
\* the variables of the conversion workflow, likewise
ConvIdle ==
    /\ reference = [kind |-> "same", affine |-> <<1, 0>>]
    /\ vox = FALSE
    /\ io_it = <<>> /\ inputs = <<>> /\ files = <<>> /\ saved = <<>>
\* the variables of the repeated calls of update_visualbox, likewise
FnIdle ==
    /\ vbox = DefaultBox /\ vboxIn = DefaultBox /\ vboxPrev = DefaultBox
    /\ ncalls = 0

\* --------------------------------------------------------- set_box_on_shape
\* one iteration of the loop, lines 96-100: the result of axis i on box b.
\* The raise of line 98 raises a tuple, which is no exception: Python ends the
\* statement with a TypeError instead, an error all the same.
\* (variant: the comparison of line 97 never ends the call)
AxisRaisesNever(b, i) == FALSE

AxisRaises(b, i) == Lo(b, i) > Hi(b, i)

SetAxis(b, shp, i) ==
    [b EXCEPT ![2*i+1] = Max(Lo(b, i), 0),
              ![2*i+2] = IF Hi(b, i) < 0 THEN shp[i+1] - 1
                         ELSE Min(Hi(b, i), shp[i+1] - 1)]

\* the loop from axis i on; the box is changed in place, so the axes before a
\* raising axis keep their corrected values
RECURSIVE SetBoxFrom(_, _, _)
SetBoxFrom(b, shp, i) ==
    IF i > 2 THEN [box |-> b, raised |-> FALSE]
    ELSE IF AxisRaises(b, i) THEN [box |-> b, raised |-> TRUE]
    ELSE SetBoxFrom(SetAxis(b, shp, i), shp, i + 1)

set_box_on_shape(b, shp) == SetBoxFrom(b, shp, 0)

\* ------------------------------------------------ specification: one call of
\* set_box_on_shape on any box and any shape
InitBox ==
    /\ boxIn \in SixOf(Coord)
    /\ box = boxIn
    /\ shape \in Shapes
    /\ raised = FALSE
    /\ pc = "call"
    /\ FnIdle
    /\ RunIdle
    /\ ConvIdle

CallSetBox ==
    /\ pc = "call"
    /\ LET r == set_box_on_shape(box, shape) IN
        /\ box' = r.box
        /\ raised' = r.raised
        /\ pc' = IF r.raised THEN "error" ELSE "returned"
    /\ UNCHANGED <<boxIn, shape, fnVars, runVars, convVars>>

NextBox == CallSetBox

SpecBox == InitBox /\ [][NextBox]_vars

\* --------------------------------------------------------- update_visualbox
\* line 107: box==[-1]*len(box)
IsDefaultBox(b) == \A k \in 1..Len(b) : b[k] = -1

\* (variant: only the branch of line 113, a box bounded on both sides)
PlaneOutOfBoxBothOnly(b, v, i) ==
    /\ Lo(v, i) = Hi(v, i)
    /\ Lo(b, i) >= 0 /\ Hi(b, i) >= 0
    /\ ~(Lo(b, i) <= Lo(v, i) /\ Lo(v, i) <= Hi(b, i))

\* lines 112-118 for axis i: a slice of vbox that is out of the box
PlaneOutOfBox(b, v, i) ==
    /\ Lo(v, i) = Hi(v, i)
    /\ \/ Lo(b, i) >= 0 /\ Hi(b, i) >= 0
          /\ ~(Lo(b, i) <= Lo(v, i) /\ Lo(v, i) <= Hi(b, i))
       \/ Lo(b, i) < 0 /\ Hi(b, i) >= 0 /\ ~(Lo(v, i) <= Hi(b, i))
       \/ Lo(b, i) >= 0 /\ Hi(b, i) < 0 /\ ~(Lo(b, i) <= Lo(v, i))

\* the first loop, lines 111-118: such slices are made invisible
HideSlices(b, v) ==
    LET h(k) == IF PlaneOutOfBox(b, v, (k - 1) \div 2) THEN -1 ELSE v[k]
    IN  <<h(1), h(2), h(3), h(4), h(5), h(6)>>

\* (variant: the -1 of the box is not skipped in lines 122 and 124)
IntersectNoSentinel(b, v) ==
    LET m(k) == IF v[k] # -1
                THEN (IF k % 2 = 1 THEN Max(b[k], v[k]) ELSE Min(b[k], v[k]))
                ELSE v[k]
    IN  <<m(1), m(2), m(3), m(4), m(5), m(6)>>

\* (variant: the lower bound of vbox is taken as an offset into the box)
IntersectOffset(b, v) ==
    LET m(k) == IF v[k] # -1 /\ b[k] # -1
                THEN (IF k % 2 = 1 THEN b[k] + v[k] ELSE Min(b[k], v[k]))
                ELSE v[k]
    IN  <<m(1), m(2), m(3), m(4), m(5), m(6)>>

\* the second loop, lines 121-125: the intersection between box and vbox
Intersect(b, v) ==
    LET m(k) == IF v[k] # -1 /\ b[k] # -1
                THEN (IF k % 2 = 1 THEN Max(b[k], v[k]) ELSE Min(b[k], v[k]))
                ELSE v[k]
    IN  <<m(1), m(2), m(3), m(4), m(5), m(6)>>

\* (variant: the default box, read as "nothing visible", hides the extent)
update_visualboxHidesAll(b, v) ==
    IF IsDefaultBox(b) THEN DefaultBox
    ELSE LET hidden == HideSlices(b, v) IN Intersect(b, hidden)

\* the value of vbox after update_visualbox(box, vbox); box is only read
update_visualbox(b, v) ==
    IF IsDefaultBox(b) THEN v
    ELSE LET hidden == HideSlices(b, v) IN Intersect(b, hidden)

\* ------------------------------------------------ specification: repeated
\* calls of update_visualbox with one box on one extent.  The y and z axes of
\* the inputs carry the same bounds, the x axis any.
\* (variant: the two lists exchange their roles and the box is the one cut)
BoxAfterUpdateCut(b, v) == update_visualbox(v, b)

\* lines 103-125 assign to elements of vbox and to nothing else: the list
\* box after update_visualbox(box, vbox) has returned
BoxAfterUpdate(b, v) == b

BoxInputs == {<<a, b, c, d, c, d>> : a \in Coord, b \in Coord, c \in Coord, d \in Coord}
ExtentInputs == BoxInputs

InitVbox ==
    /\ boxIn \in BoxInputs
    /\ box = boxIn
    /\ shape = NoShape
    /\ raised = FALSE
    /\ pc = "call"
    /\ vboxIn \in ExtentInputs
    /\ vbox = vboxIn /\ vboxPrev = vboxIn
    /\ ncalls = 0
    /\ RunIdle
    /\ ConvIdle

CallUpdateVisualbox ==
    /\ pc = "call"
    /\ ncalls < MaxCalls
    /\ vbox' = update_visualbox(box, vbox)
    /\ box' = BoxAfterUpdate(box, vbox)
    /\ vboxPrev' = vbox
    /\ ncalls' = ncalls + 1
    /\ UNCHANGED <<boxIn, shape, raised, pc, vboxIn, runVars, convVars>>

NextVbox == CallUpdateVisualbox

SpecVbox == InitVbox /\ [][NextVbox]_vars

\* ------------------------------------------------------------ the viewer run
\* actor_dict['image_actor_x'] is extent.image[1], 'tensor_actor_z' is
\* extent.tensor[3]: LayerExtent("image", 0) and LayerExtent("tensor", 2).
LayerExtent(type, i) == extent[type][i + 1]

\* int(np.round(v)) for v = v2/2: numpy rounds a half to the even neighbour
RoundHalfEven(v2) ==
    IF v2 % 2 = 0 THEN v2 \div 2
    ELSE IF (v2 \div 2) % 2 = 0 THEN v2 \div 2 ELSE (v2 \div 2) + 1

\* lines 409, 420, 431: the slice x of axis i, the other axes in full
SliceAt(shp, i, x) ==
    IF i = 0 THEN <<x, x, 0, shp[2] - 1, 0, shp[3] - 1>>
    ELSE IF i = 1 THEN <<0, shp[1] - 1, x, x, 0, shp[3] - 1>>
    ELSE <<0, shp[1] - 1, 0, shp[2] - 1, x, x>>

\* scene_add_image, lines 234-249: display_extent is called on the x and the
\* y actor; the z actor keeps what actor.slicer gave it
ImageExtents(shp) ==
    <<SliceAt(shp, 0, RoundHalfEven(shp[1])),
      SliceAt(shp, 1, RoundHalfEven(shp[2])),
      NoExtent>>

\* scene_add_tensor, lines 354-367, and scene_add_sh, lines 293-320: the
\* three central slices of the volume's own grid, cut by the box as given
GlyphExtents(b, grid) ==
    <<update_visualbox(b, SliceAt(grid, 0, grid[1] \div 2)),
      update_visualbox(b, SliceAt(grid, 1, grid[2] \div 2)),
      update_visualbox(b, SliceAt(grid, 2, grid[3] \div 2))>>

\* the list box after these three calls of update_visualbox
BoxAfterGlyphs(b, grid) ==
    LET bz == BoxAfterUpdate(b, SliceAt(grid, 2, grid[3] \div 2))
        by == BoxAfterUpdate(bz, SliceAt(grid, 1, grid[2] \div 2))
    IN  BoxAfterUpdate(by, SliceAt(grid, 0, grid[1] \div 2))

\* the order of Python tuples, and min(a, b) of two tuples
TupleLess(s, t) ==
    \E k \in 1..Len(s) : s[k] < t[k] /\ \A j \in 1..(k - 1) : s[j] = t[j]
PyMin(a, b) == IF TupleLess(b, a) THEN b ELSE a

\* lines 551-557 and 563-569: the run shape after a tensor or SH volume of
\* shape grid is added
RunShape(a, shp, grid) ==
    IF ~a.image THEN grid
    ELSE IF grid # shp THEN PyMin(shp, grid) ELSE shp

\* the shapes of the volumes given: the x axis and the y and z axes together
\* are degenerate or of the full size
VolumeShapes == {<<a, b, b>> : a \in Dims, b \in Dims}

\* the boxes given on the command line: one pair of bounds, the same on the
\* three axes; a bound is not given (-1), an index of the largest volume, or
\* the first index past it
BoxArgs == {<<a, b, a, b, a, b>> : a \in -1..MaxDim, b \in -1..MaxDim}

Init ==
    /\ boxIn \in BoxArgs
    /\ box = boxIn
    /\ shape = NoShape
    /\ raised = FALSE
    /\ pc = "image"
    /\ FnIdle
    /\ args \in [image : BOOLEAN, tensor : BOOLEAN, sh : BOOLEAN]
    /\ imageShape = NoShape /\ tensorShape = NoShape /\ shShape = NoShape
    /\ extent = NoExtents
    /\ slid = NotSlid
    /\ opacity = DefaultOpacity
    /\ sphere = "Low resolution"
    /\ ConvIdle

\* main, lines 545-546
MainAddImage ==
    /\ pc = "image"
    /\ pc' = "tensor"
    /\ IF args.image
       THEN \E s \in VolumeShapes :
               /\ imageShape' = s
               /\ shape' = s
               /\ extent' = [extent EXCEPT !.image = ImageExtents(s)]
       ELSE UNCHANGED <<imageShape, shape, extent>>
    /\ UNCHANGED <<box, boxIn, raised, fnVars, args, tensorShape, shShape, slid,
                   opacity, sphere, convVars>>

\* main, lines 548-557
MainAddTensor ==
    /\ pc = "tensor"
    /\ pc' = "sh"
    /\ IF args.tensor
       THEN \E s \in VolumeShapes :
               /\ tensorShape' = s
               /\ extent' = [extent EXCEPT !.tensor = GlyphExtents(box, s)]
               /\ box' = BoxAfterGlyphs(box, s)
               /\ shape' = RunShape(args, shape, s)
       ELSE UNCHANGED <<tensorShape, shape, extent, box>>
    /\ UNCHANGED <<boxIn, raised, fnVars, args, imageShape, shShape, slid,
                   opacity, sphere, convVars>>

\* main, lines 560-569
MainAddSh ==
    /\ pc = "sh"
    /\ pc' = "setbox"
    /\ IF args.sh
       THEN \E s \in VolumeShapes :
               /\ shShape' = s
               /\ extent' = [extent EXCEPT !.sh = GlyphExtents(box, s)]
               /\ box' = BoxAfterGlyphs(box, s)
               /\ shape' = RunShape(args, shape, s)
       ELSE UNCHANGED <<shShape, shape, extent, box>>
    /\ UNCHANGED <<boxIn, raised, fnVars, args, imageShape, tensorShape, slid,
                   opacity, sphere, convVars>>

Volumetric(a) == a.image \/ a.tensor \/ a.sh

\* main, lines 575-590: the box is set on the run shape and the sliders are
\* built; without a volume there is neither
MainSetBox ==
    /\ pc = "setbox"
    /\ IF Volumetric(args)
       THEN LET r == set_box_on_shape(box, shape) IN
               /\ box' = r.box
               /\ raised' = r.raised
               /\ pc' = IF r.raised THEN "error" ELSE "ui"
       ELSE /\ pc' = "show"
            /\ UNCHANGED <<box, raised>>
    /\ UNCHANGED <<boxIn, shape, fnVars, runVars, convVars>>

\* lines 383-399: max_value of the slider of axis i
SliderMax(shp, i) == IF shp[i + 1] > 1 THEN shp[i + 1] - 1 ELSE 1

\* (variant: the glyph layers are given the uncut slice, as the image is)
GlyphSliceExtentUncut(b, shp, i, x) == SliceAt(shp, i, x)

\* line 410 and lines 414, 416: the extent a tensor or SH layer of axis i is
\* given when the slider of that axis is at the voxel x
GlyphSliceExtent(b, shp, i, x) == update_visualbox(b, SliceAt(shp, i, x))

\* lines 412, 423, 434: the extent the image layer is given
ImageSliceExtent(b, shp, i, x) == SliceAt(shp, i, x)

\* the values int(np.round(slider.value)) takes on axis i: the slider moves
\* between 0 and its max_value, its value given here in halves
SliderVoxels(shp, i) == {RoundHalfEven(v2) : v2 \in 0..(2 * SliderMax(shp, i))}

\* change_slice_x/y/z, lines 407-438, for axis i and the rounded value x
ChangeSlice(i, x) ==
    /\ LET glyph == GlyphSliceExtent(box, shape, i, x) IN
        extent' =
          [image |-> IF args.image
                     THEN [extent.image EXCEPT ![i + 1] = ImageSliceExtent(box, shape, i, x)]
                     ELSE extent.image,
           tensor |-> IF args.tensor
                      THEN [extent.tensor EXCEPT ![i + 1] = glyph]
                      ELSE extent.tensor,
           sh |-> IF args.sh
                  THEN [extent.sh EXCEPT ![i + 1] = glyph]
                  ELSE extent.sh]
    /\ slid' = [slid EXCEPT ![i] = x]
    /\ box' = BoxAfterUpdate(box, SliceAt(shape, i, x))
    /\ UNCHANGED <<boxIn, shape, raised, pc, fnVars,
                   args, imageShape, tensorShape, shShape, opacity, sphere, convVars>>

change_slice_x ==
    /\ pc = "ui"
    /\ \E x \in SliderVoxels(shape, 0) : ChangeSlice(0, x)

change_slice_y ==
    /\ pc = "ui"
    /\ \E x \in SliderVoxels(shape, 1) : ChangeSlice(1, x)

change_slice_z ==
    /\ pc = "ui"
    /\ \E x \in SliderVoxels(shape, 2) : ChangeSlice(2, x)

Next ==
    \/ MainAddImage
    \/ MainAddTensor
    \/ MainAddSh
    \/ MainSetBox
    \/ change_slice_x
    \/ change_slice_y
    \/ change_slice_z

Spec == Init /\ [][Next]_vars

\* the values the opacity slider gives, in tenths: lines 401-402, the slider
\* runs from 0.0 to 1.0; its two ends and where it starts
Opacities == {0, DefaultOpacity}

\* change_opacity, lines 440-445: the three image actors, if there are any,
\* are given the value stored in _args
change_opacity ==
    /\ pc = "ui"
    /\ \E v \in Opacities : opacity' = v
    /\ UNCHANGED <<box, boxIn, shape, raised, pc, fnVars, args, imageShape,
                   tensorShape, shShape, extent, slid, sphere, convVars>>

\* change_sphere, lines 447-451; the selector is there with --sh only,
\* lines 458-461
change_sphere ==
    /\ pc = "ui"
    /\ args.sh
    /\ \E name \in SphereNames : sphere' = name
    /\ UNCHANGED <<box, boxIn, shape, raised, pc, fnVars, args, imageShape,
                   tensorShape, shShape, extent, slid, opacity, convVars>>

\* the run with all five callbacks of the panel, on the boxes that have no
\* lower bound or the lower bound 1, and no upper bound or the largest one
PanelBoxArgs == {<<a, b, a, b, a, b>> : a \in {-1, 1}, b \in {-1, MaxDim}}

InitPanel == Init /\ boxIn \in PanelBoxArgs

NextPanel ==
    \/ MainAddImage
    \/ MainAddTensor
    \/ MainAddSh
    \/ MainSetBox
    \/ change_slice_x
    \/ change_slice_y
    \/ change_slice_z
    \/ change_opacity
    \/ change_sphere

SpecPanel == InitPanel /\ [][NextPanel]_vars

\* ------------------------------------------------- the conversion workflow
\* largest number of input files of one run
MaxFiles == 2

\* Streamline points lie on a line of three positions and an affine <<a, b>>
\* maps x to a*x+b on it (modulo its length): the six affines are the six
\* invertible maps of the line, so that an affine, its inverse and the
\* identity differ.
Points == 0..2
Modulus == Cardinality(Points)
Affines == {<<a, b>> \in Points \X Points :
                \E c \in Points : (a * c) % Modulus = 1}

Apply(A, x) == (A[1] * x + A[2]) % Modulus

\* (variant: the affine itself in place of its inverse)
NotInverted(A) == A

\* np.linalg.inv(affine), line 50
Inverse(A) ==
    LET c == CHOOSE c \in Points : (A[1] * c) % Modulus = 1
    IN  <<c, (c * (Modulus - A[2])) % Modulus>>

\* transform_streamlines(streamlines, mat), line 50: mat applied to each point
transform_streamlines(streamlines, mat) ==
    [k \in 1..Len(streamlines) |-> Apply(mat, streamlines[k])]

\* a tractogram file: its streamlines (two points) and whether it is a .trk
Tractograms == [streamlines : Points \X Points, trk : BOOLEAN]

\* the reference parameter: 'same', a nifti image with its affine, or a trk
\* file or header, which load_nifti cannot read
References ==
    {[kind |-> "same", affine |-> <<1, 0>>], [kind |-> "trk", affine |-> <<1, 0>>]}
        \cup {[kind |-> "nifti", affine |-> A] : A \in Affines}

\* the file out_track names is path 0; the I/O iterator gives the k-th input
\* the output path k, or gives all inputs the one path 0
OutTrack == 0
NoFile == <<>>
Iterators(n) ==
    {[k \in 1..n |-> [input_path |-> k, out_track_path |-> k]],
     [k \in 1..n |-> [input_path |-> k, out_track_path |-> OutTrack]]}

InitConvert ==
    /\ box = DefaultBox /\ boxIn = DefaultBox /\ shape = NoShape
    /\ raised = FALSE
    /\ pc = "loop"
    /\ FnIdle
    /\ RunIdle
    /\ reference \in References
    /\ vox \in BOOLEAN
    /\ \E n \in 1..MaxFiles :
          /\ io_it \in Iterators(n)
          /\ inputs \in [1..n -> Tractograms]
    /\ files = [q \in 0..MaxFiles |-> NoFile]
    /\ saved = <<>>

\* line 46: load_tractogram with reference 'same' reads a .trk file only
LoadFails(track, ref) == ref.kind = "same" /\ ~track.trk

\* lines 48-49: the reference is loaded as a nifti image when the streamlines
\* are to be transformed
NeedsAffine(ref, v) == ref.kind # "same" /\ v
LoadNiftiFails(ref) == ref.kind # "nifti"

\* one pass of the loop of run, lines 42-54, on the next pair of io_it
ConvertOne ==
    /\ pc = "loop"
    /\ Len(saved) < Len(io_it)
    /\ LET pair == io_it[Len(saved) + 1]
           track == inputs[pair.input_path]
       IN  /\ ~LoadFails(track, reference)
           /\ ~(NeedsAffine(reference, vox) /\ LoadNiftiFails(reference))
           /\ LET streamlines ==
                      IF NeedsAffine(reference, vox)
                      THEN transform_streamlines(track.streamlines,
                                                 Inverse(reference.affine))
                      ELSE track.streamlines
              IN  /\ files' = [files EXCEPT ![OutTrack] = streamlines]
                  /\ saved' = Append(saved,
                                [input_path |-> pair.input_path,
                                 path |-> OutTrack,
                                 streamlines |-> streamlines,
                                 transforms |-> IF NeedsAffine(reference, vox) THEN 1 ELSE 0])
    /\ UNCHANGED <<box, boxIn, shape, raised, pc, fnVars, runVars,
                   reference, vox, io_it, inputs>>

\* an error of a loader ends the run, lines 46 and 49
ConvertFails ==
    /\ pc = "loop"
    /\ Len(saved) < Len(io_it)
    /\ LET track == inputs[io_it[Len(saved) + 1].input_path]
       IN  \/ LoadFails(track, reference)
           \/ NeedsAffine(reference, vox) /\ LoadNiftiFails(reference)
    /\ pc' = "error"
    /\ raised' = TRUE
    /\ UNCHANGED <<box, boxIn, shape, fnVars, runVars, convVars>>

\* the iterator is exhausted and run returns
ConvertDone ==
    /\ pc = "loop"
    /\ Len(saved) = Len(io_it)
    /\ pc' = "done"
    /\ UNCHANGED <<box, boxIn, shape, raised, fnVars, runVars, convVars>>

NextConvert == ConvertOne \/ ConvertFails \/ ConvertDone

SpecConvert == InitConvert /\ [][NextConvert]_vars

\* ====================================================== claims C1 to C7
\* the box given has, on every axis, two non-negative bounds in order
OrderedNonNegative(b) ==
    \A i \in Axes : Lo(b, i) >= 0 /\ Hi(b, i) >= 0 /\ Lo(b, i) <= Hi(b, i)

\* on axis i the box given has two non-negative bounds, the lower the larger
Inverted(b, i) == Lo(b, i) >= 0 /\ Hi(b, i) >= 0 /\ Lo(b, i) > Hi(b, i)

InShape(x, shp, i) == 0 <= x /\ x <= shp[i+1] - 1

\* C1 (as claimed): for a box with ordered non-negative bounds on every axis,
\* set_box_on_shape returns and leaves both bounds of every axis within
\* [0, shape[axis]-1], also when the lower bound given exceeds shape[axis]-1.
C1_BoundsWithinShape ==
    (pc # "call" /\ OrderedNonNegative(boxIn)) =>
        /\ pc = "returned"
        /\ \A i \in Axes : InShape(Lo(box, i), shape, i) /\ InShape(Hi(box, i), shape, i)

\* C2: whenever some axis of the box given has two non-negative bounds with
\* the lower above the upper, the call of set_box_on_shape ends in an error
\* and does not return.
C2_InvertedBoxRaises ==
    (pc # "call" /\ \E i \in Axes : Inverted(boxIn, i)) => (pc = "error" /\ raised)

C2_Witness ==
    /\ pc = "error"
    /\ \E i \in Axes : Inverted(boxIn, i)
    /\ \A i \in Axes : Hi(boxIn, i) >= 0

\* C3 (as claimed): when no axis of the box given is inverted, the call
\* returns, and every axis whose upper bound is negative is resolved to
\* lower = max(lower, 0) and upper = shape[axis]-1, whatever its lower bound.
C3_NegativeUpperResolved ==
    (pc # "call"
       /\ \A i \in Axes : Hi(boxIn, i) < 0 \/ (Lo(boxIn, i) <= Hi(boxIn, i)))
    =>
        /\ pc = "returned"
        /\ \A i \in Axes : Hi(boxIn, i) < 0 =>
                /\ Lo(box, i) = Max(Lo(boxIn, i), 0)
                /\ Hi(box, i) = shape[i+1] - 1

\* C4: update_visualbox called with the all -1 box leaves all six values of
\* the extent as they were.
C4_DefaultBoxKeepsExtent ==
    (ncalls >= 1 /\ box = DefaultBox) => vbox = vboxIn

C4_Witness ==
    /\ ncalls = 1 /\ box = DefaultBox
    /\ Lo(vboxIn, 0) = Hi(vboxIn, 0) /\ Lo(vboxIn, 0) >= 0
    /\ Lo(vboxIn, 1) < Hi(vboxIn, 1)

\* C5: update_visualbox is idempotent: a second call with the same box
\* leaves the extent exactly as the first call left it.
C5_Idempotent ==
    ncalls >= 2 => vbox = vboxPrev

\* a second call on an extent whose x slice the first call hid and whose y
\* range the first call narrowed to a slice
C5_Witness ==
    /\ ncalls = 2
    /\ Lo(vboxIn, 0) = Hi(vboxIn, 0) /\ Lo(vboxIn, 0) >= 0 /\ Lo(vbox, 0) = -1
    /\ Lo(vboxIn, 1) < Hi(vboxIn, 1) /\ Lo(vbox, 1) = Hi(vbox, 1)
    /\ Lo(box, 0) = -1

\* the range of box b on axis i, from its non-negative bounds only, excludes p
Excludes(b, i, p) ==
    \/ Lo(b, i) >= 0 /\ p < Lo(b, i)
    \/ Hi(b, i) >= 0 /\ p > Hi(b, i)

\* C6: with a box that is not all -1, an extent axis that is a slice at
\* p >= 0 becomes (-1,-1) when the box excludes p on that axis and stays
\* (p,p) when the box includes p.
C6_SliceHiddenOrKept ==
    (ncalls >= 1 /\ box # DefaultBox) =>
        \A i \in Axes :
            (Lo(vboxPrev, i) = Hi(vboxPrev, i) /\ Lo(vboxPrev, i) >= 0) =>
                IF Excludes(box, i, Lo(vboxPrev, i))
                THEN Lo(vbox, i) = -1 /\ Hi(vbox, i) = -1
                ELSE Lo(vbox, i) = Lo(vboxPrev, i) /\ Hi(vbox, i) = Lo(vboxPrev, i)

\* the example of the claim scaled to the bounds: an x slice at 2, the box
\* [0,1,-1,-1,-1,-1], the x axis hidden and the other axes as they were
C6_Witness ==
    /\ ncalls = 1
    /\ box = <<0, 1, -1, -1, -1, -1>>
    /\ vboxIn = <<2, 2, 0, 2, 0, 2>>
    /\ vbox = <<-1, -1, 0, 2, 0, 2>>

\* C7: on an extent axis that is not a slice, update_visualbox yields
\* lower = max(extent.lower, box.lower) and upper = min(extent.upper,
\* box.upper) when all four bounds are non-negative, and leaves a bound
\* untouched that is -1 in the box or in the extent.
C7_Intersection ==
    ncalls >= 1 =>
        \A i \in Axes :
            Lo(vboxPrev, i) # Hi(vboxPrev, i) =>
                /\ (Lo(vboxPrev, i) >= 0 /\ Hi(vboxPrev, i) >= 0
                      /\ Lo(box, i) >= 0 /\ Hi(box, i) >= 0)
                   => /\ Lo(vbox, i) = Max(Lo(vboxPrev, i), Lo(box, i))
                      /\ Hi(vbox, i) = Min(Hi(vboxPrev, i), Hi(box, i))
                /\ (Lo(vboxPrev, i) = -1 \/ Lo(box, i) = -1)
                   => Lo(vbox, i) = Lo(vboxPrev, i)
                /\ (Hi(vboxPrev, i) = -1 \/ Hi(box, i) = -1)
                   => Hi(vbox, i) = Hi(vboxPrev, i)

\* an x range narrowed on both sides, and a y range next to a box that
\* bounds the y axis from below only
C7_Witness ==
    /\ ncalls = 1
    /\ Lo(vboxIn, 0) = 0 /\ Hi(vboxIn, 0) = 2 /\ Lo(box, 0) = 1 /\ Hi(box, 0) = 1
    /\ Lo(vbox, 0) = 1 /\ Hi(vbox, 0) = 1
    /\ Lo(vboxIn, 1) = 0 /\ Hi(vboxIn, 1) = 2 /\ Lo(box, 1) = 1 /\ Hi(box, 1) = -1
    /\ Lo(vbox, 1) = 1 /\ Hi(vbox, 1) = 2

\* ====================================================== claims C8 and C9
Loaded == pc \in {"setbox", "ui", "error"}

\* the element-wise minimum of two shapes
AxisMin(a, b) == [k \in 1..Len(a) |-> Min(a[k], b[k])]

\* C8 (as claimed): when the image and one tensor or SH volume are loaded
\* and their grid shapes differ, the run shape used for the box and the
\* sliders is, on each axis, the smaller of the two sizes.
C8_RunShapeIsAxisMin ==
    /\ (Loaded /\ args.image /\ args.tensor /\ ~args.sh /\ imageShape # tensorShape)
        => shape = AxisMin(imageShape, tensorShape)
    /\ (Loaded /\ args.image /\ args.sh /\ ~args.tensor /\ imageShape # shShape)
        => shape = AxisMin(imageShape, shShape)

\* the layer types that are there
Active(type) == args[type]

\* C9 (as claimed): after a slider change on an axis, every active layer of
\* that axis, image, tensor and SH, has the extent update_visualbox computes
\* from the rounded slider value and the box.  Stated for the slider values
\* that are voxels of the axis, where the claim fails already.
C9_AllLayersSameExtent ==
    pc = "ui" =>
        \A i \in Axes : (slid[i] >= 0 /\ slid[i] <= shape[i + 1] - 1) =>
            \A type \in {"image", "tensor", "sh"} : Active(type) =>
                LayerExtent(type, i) = update_visualbox(box, SliceAt(shape, i, slid[i]))

\* C9 (amended): after a slider change on an axis, every active tensor and
\* SH layer of that axis has the extent update_visualbox computes from the
\* rounded slider value and the box, so both are on that slice or both are
\* hidden; the image layer, which the box is not applied to, has the uncut
\* slice at the rounded slider value.
C9_GlyphLayersSameExtent ==
    pc = "ui" =>
        \A i \in Axes : slid[i] >= 0 =>
            /\ \A type \in {"tensor", "sh"} : Active(type) =>
                  /\ LayerExtent(type, i) = update_visualbox(box, SliceAt(shape, i, slid[i]))
                  /\ \/ Lo(LayerExtent(type, i), i) = slid[i] /\ Hi(LayerExtent(type, i), i) = slid[i]
                     \/ Lo(LayerExtent(type, i), i) = -1 /\ Hi(LayerExtent(type, i), i) = -1
            /\ Active("image") => LayerExtent("image", i) = SliceAt(shape, i, slid[i])

\* image, tensor and SH are there, the x slider was moved to a slice the box
\* excludes: the two glyph layers are hidden, the image is on the slice
C9_Witness ==
    /\ pc = "ui"
    /\ args.image /\ args.tensor /\ args.sh
    /\ slid[0] >= 0 /\ slid[1] >= 0
    /\ Lo(LayerExtent("tensor", 0), 0) = -1 /\ Lo(LayerExtent("sh", 0), 0) = -1
    /\ Lo(LayerExtent("image", 0), 0) = slid[0]
    /\ Lo(LayerExtent("tensor", 1), 1) = slid[1]

\* ============================================================== claim C10
\* C10: every tractogram the workflow saves holds the streamlines loaded from
\* its input, mapped by the inverse of the reference image's affine when vox
\* is true and a reference is given (the affine maps each saved point back to
\* the loaded one), and unmodified when vox is false, whatever the reference;
\* the transform is applied at most once per input file.
C10_SavedStreamlines ==
    \A n \in 1..Len(saved) :
        LET r == saved[n]
            loaded == inputs[r.input_path].streamlines
        IN  /\ (vox /\ reference.kind # "same") =>
                  /\ Len(r.streamlines) = Len(loaded)
                  /\ \A k \in 1..Len(loaded) :
                        Apply(reference.affine, r.streamlines[k]) = loaded[k]
            /\ ~vox => r.streamlines = loaded
            /\ r.transforms <= 1

\* two files converted to voxel space with an affine that is not its own
\* inverse, the saved points differing from the loaded ones
C10_Witness ==
    /\ pc = "done"
    /\ Len(saved) = 2
    /\ vox /\ reference.kind = "nifti"
    /\ Inverse(reference.affine) # reference.affine
    /\ saved[1].streamlines # inputs[1].streamlines
    /\ saved[2].streamlines # inputs[2].streamlines

\* ------------------------------------------------------------------ claim C11
\* C11: the box is written by the one set_box_on_shape call of main and by
\* nothing else: while the volumes are loaded (with the update_visualbox
\* calls of scene_add_tensor and scene_add_sh) it is the box of the command
\* line, and once the panel is up it is the result of set_box_on_shape on
\* that box and the run shape, whatever slice, opacity and sphere callbacks
\* have run.
C11_BoxOnlySetOnce ==
    /\ pc \in {"image", "tensor", "sh", "setbox", "show"} => box = boxIn
    /\ pc = "ui" => box = set_box_on_shape(boxIn, shape).box

\* the panel is up, the box was changed by set_box_on_shape, and the three
\* slice sliders, the opacity slider and the sphere selector have all acted
C11_Witness ==
    /\ pc = "ui"
    /\ box # boxIn
    /\ \A i \in Axes : slid[i] >= 0
    /\ opacity # DefaultOpacity
    /\ sphere = "High resolution"
    /\ args.tensor /\ args.sh

\* ------------------------------------------------------------------ claim C12
\* C12: once the slider of an axis has been moved, the plane the image layer
\* of that axis is on is a voxel index of the run shape, 0 <= x <=
\* shape[axis]-1, also on an axis of one voxel.
C12_ImagePlaneInShape ==
    \A i \in Axes :
        (pc = "ui" /\ args.image /\ slid[i] >= 0) =>
            /\ Lo(LayerExtent("image", i), i) = Hi(LayerExtent("image", i), i)
            /\ Lo(LayerExtent("image", i), i) \in 0..(shape[i + 1] - 1)

\* ------------------------------------------------------------------ claim C13
GridShape(type) == IF type = "tensor" THEN tensorShape ELSE shShape

\* C13: when the scene is built with the default box from an image and a
\* tensor or SH volume of the same shape, the x and the y layer of the image
\* and the x and the y layer of the tensor or SH volume are on the same
\* plane: int(np.round(shape/2)) is shape//2 on every axis.
C13_SameCentralPlane ==
    \A type \in {"tensor", "sh"} : \A i \in {0, 1} :
        (/\ pc = "setbox"
         /\ boxIn = DefaultBox
         /\ args.image /\ args[type]
         /\ GridShape(type) = imageShape) =>
            /\ Lo(LayerExtent(type, i), i) = Lo(LayerExtent("image", i), i)
            /\ Hi(LayerExtent(type, i), i) = Hi(LayerExtent("image", i), i)

\* ------------------------------------------------------------------ claim C14
\* the axis j of the extent e is hidden, or a range within the volume of
\* shape shp and within the range of the box b on that axis
AxisHiddenOrWithin(e, b, shp, j) ==
    \/ Lo(e, j) = -1 /\ Hi(e, j) = -1
    \/ /\ 0 <= Lo(e, j) /\ Lo(e, j) <= Hi(e, j) /\ Hi(e, j) <= shp[j + 1] - 1
       /\ Lo(b, j) <= Lo(e, j) /\ Hi(e, j) <= Hi(b, j)

\* C14: for a box of the command line that is ordered on every axis where
\* both bounds are given, once set_box_on_shape has run and the slider of an
\* axis has been moved, every axis of the extent of the tensor and of the SH
\* layer of that slider is hidden (-1,-1) or a range lo <= hi within
\* [0, shape[axis]-1] and within the range of the box on that axis.
C14_GlyphExtentWithinBox ==
    (pc = "ui" /\ \A k \in Axes : ~Inverted(boxIn, k)) =>
        \A type \in {"tensor", "sh"} : \A i \in Axes :
            (args[type] /\ slid[i] >= 0) =>
                \A j \in Axes : AxisHiddenOrWithin(LayerExtent(type, i), box, shape, j)

\* ------------------------------------------------------------------ claim C15
\* C15: the conversion of the n-th pair of the iterator is written to that
\* pair's output path, and when the output paths of the pairs differ, each of
\* them holds, from the save of its pair on, the conversion of its own input:
\* no later save overwrites it.
C15_SavedAtOwnPath ==
    \A n \in 1..Len(saved) :
        /\ saved[n].path = io_it[n].out_track_path
        /\ (\A m \in 1..Len(io_it) :
                m # n => io_it[m].out_track_path # io_it[n].out_track_path) =>
               files[io_it[n].out_track_path] = saved[n].streamlines
====
